---- MODULE Spec2Model ----
(***************************************************************************)
(* Model of animation_03_correlation_cmip6_era5.ipynb: the time axes given *)
(* to the two datasets, the remapping of ERA5 onto the CMIP6 grid, the     *)
(* per-cell Pearson correlation, the frame-generation loop over the years  *)
(* 1979..2014, the GIF assembly and the clean-up of the output directory.  *)
(*                                                                         *)
(* File names are sequences of ASCII codes, so that the glob pattern and   *)
(* the lexical order used by sorted() are computed on characters.  Real    *)
(* numbers are exact: a correlation is kept as its sign and its square.    *)
(***************************************************************************)
EXTENDS Integers, Sequences, FiniteSets, TLC

VARIABLES
    pc,         \* position of the run: "setup", "loop", "assemble", "glob",
                \* "cleanup", "done", "aborted"
    i,          \* the loop variable of `for i in range(36)`
    ds_cmip6,   \* per cell, the precipitation record of the simulation
    ds_tp_mon_remap, \* per cell, the remapped precipitation record of ERA5
    dirExists,  \* whether ./output exists
    files,      \* ./output: file name -> content
    initial,    \* ./output as it was when the run started
    selCmip,    \* time labels of ds_cmip6['pr'].sel(time=slice(year, year))
    selEra,     \* time labels of ds_tp_mon_remap['pr'].sel(time=slice(year, year))
    inCmip,     \* per cell, the loaded CMIP6 series of the current year
    inEra,      \* per cell, the loaded remapped ERA5 series of the current year
    cc,         \* per cell, the correlation of the current year
    del_files,  \* the list still to be removed by the clean-up loop
    inarray1,   \* get_corrcoef called on its own: first argument
    inarray2,   \* second argument
    corr,       \* its result
    cpc,        \* "call", "returned" or "raised"
    srcLat,     \* remapping: latitude coordinate of the source dataset
    srcLon,     \* longitude coordinate of the source dataset
    srcVal,     \* source values of one time step, [lat][lon]
    new_lat,    \* target latitudes
    new_lon,    \* target longitudes
    remap,      \* the interpolated values of that time step, [lat][lon]
    ipc         \* "call" or "returned"

vars == <<pc, i, ds_cmip6, ds_tp_mon_remap, dirExists, files, initial, selCmip, selEra, inCmip, inEra, cc,
          del_files, inarray1, inarray2, corr, cpc,
          srcLat, srcLon, srcVal, new_lat, new_lon, remap, ipc>>

pipeVars == <<pc, i, ds_cmip6, ds_tp_mon_remap, dirExists, files, initial, selCmip, selEra, inCmip,
              inEra, cc, del_files>>
corrVars == <<inarray1, inarray2, corr, cpc>>
interpVars == <<srcLat, srcLon, srcVal, new_lat, new_lon, remap, ipc>>

(***************************************************************************)
(* Bounds of the model.                                                    *)
(***************************************************************************)
NumCells == 1       \* grid cells carried through the frame loop
MaxLen == 3         \* longest series given to get_corrcoef on its own
MaxVal == 1         \* series values range over -MaxVal..MaxVal
MaxCoord == 2       \* grid coordinates range over 0..MaxCoord

(***************************************************************************)
(* Program constants.                                                      *)
(***************************************************************************)
NumYears == 36              \* range(36)
FirstYear == 1979           \* year = 1979 + i
CmipStartYear == 1850       \* 'months since 1850-1-15'
CmipEndYear == 2014         \* (2014-1850+1)*12
EraStartYear == 1979        \* 'months since 1979-1-15'
EraEndYear == 2020          \* (2020-1979+1)*12
EraTrim == 2                \* time_360_ref[0:time_360_ref.size-2]
MonthsPerYear == 12
MidMonthDay == 15

Cells == 1..NumCells
Years == FirstYear..(FirstYear + NumYears - 1)

(***************************************************************************)
(* Strings.                                                                *)
(***************************************************************************)
\* str(n) for n >= 0: the decimal digits, as ASCII codes.
RECURSIVE Str(_)
Str(n) == IF n < 10 THEN <<48 + n>> ELSE Str(n \div 10) \o <<48 + (n % 10)>>

\* "Correlation_of_Pr_CMIP6_vs_ERA5_"
Prefix == <<67, 111, 114, 114, 101, 108, 97, 116, 105, 111, 110, 95, 111, 102,
            95, 80, 114, 95, 67, 77, 73, 80, 54, 95, 118, 115, 95, 69, 82, 65,
            53, 95>>
\* ".png"
Suffix == <<46, 112, 110, 103>>
\* "correlation.gif"
GifName == <<99, 111, 114, 114, 101, 108, 97, 116, 105, 111, 110, 46, 103,
             105, 102>>
\* "notes.txt": a file of the directory that the run has nothing to do with
NotesName == <<110, 111, 116, 101, 115, 46, 116, 120, 116>>

\* f"output/Correlation_of_Pr_CMIP6_vs_ERA5_{year}.png", within ./output
FrameName(year) == Prefix \o Str(year) \o Suffix

\* fnmatch of a name against 'Correlation_of_Pr_CMIP6_vs_ERA5_*.png'
Matches(name) ==
    /\ Len(name) >= Len(Prefix) + Len(Suffix)
    /\ SubSeq(name, 1, Len(Prefix)) = Prefix
    /\ SubSeq(name, Len(name) - Len(Suffix) + 1, Len(name)) = Suffix

\* Glob with the pattern '*'
GlobEverything(dir) == DOMAIN dir

\* glob.glob('output/Correlation_of_Pr_CMIP6_vs_ERA5_*.png') on a directory
Glob(dir) == {n \in DOMAIN dir : Matches(n)}

\* a < b for Python strings: decided by the code points at the first
\* position where they differ; without one, the shorter string is the lesser
LexLess(a, b) ==
    LET n == IF Len(a) < Len(b) THEN Len(a) ELSE Len(b)
        differ == {k \in 1..n : a[k] # b[k]}
    IN  IF differ = {} THEN Len(a) < Len(b)
        ELSE \E k \in differ : (\A j \in differ : k <= j) /\ a[k] < b[k]

\* the number of strings of the sorted sequence s[lo..hi] that are below x
RECURSIVE Below(_, _, _, _)
Below(x, s, lo, hi) ==
    IF lo > hi THEN lo - 1
    ELSE LET mid == (lo + hi) \div 2
         IN  IF LexLess(s[mid], x) THEN Below(x, s, mid + 1, hi)
             ELSE Below(x, s, lo, mid - 1)

\* sorted(S) for a set of strings: each one is put after those below it
RECURSIVE Sorted(_)
Sorted(S) ==
    IF S = {} THEN <<>>
    ELSE LET x == CHOOSE e \in S : TRUE
             rest == Sorted(S \ {x})
             below == Below(x, rest, 1, Len(rest))
         IN  SubSeq(rest, 1, below) \o <<x>> \o SubSeq(rest, below + 1, Len(rest))

Reverse(s) == [k \in 1..Len(s) |-> s[Len(s) + 1 - k]]

(***************************************************************************)
(* Time axes.                                                              *)
(***************************************************************************)
\* cftime.num2date(n, 'months since <startYear>-1-15 00:00:00', '360_day')
MonthsSince(startYear, n) ==
    [year |-> startYear + (n \div MonthsPerYear),
     month |-> (n % MonthsPerYear) + 1,
     day |-> MidMonthDay]

\* cftime.num2date(np.arange(0, count), units, '360_day')
TimeRef(startYear, count) == [k \in 1..count |-> MonthsSince(startYear, k - 1)]

\* the time coordinate assigned to ds_cmip6
CmipTime == TimeRef(CmipStartYear, (CmipEndYear - CmipStartYear + 1) * MonthsPerYear)

\* EraTime with the two labels dropped at the start instead of the end
EraTimeTrimmedAtStart ==
    LET time_360_ref ==
            TimeRef(EraStartYear, (EraEndYear - EraStartYear + 1) * MonthsPerYear)
    IN  SubSeq(time_360_ref, 1 + EraTrim, Len(time_360_ref))

\* time_360_ref_new, the time coordinate assigned to ds_tp_mon
EraTime ==
    LET time_360_ref ==
            TimeRef(EraStartYear, (EraEndYear - EraStartYear + 1) * MonthsPerYear)
    IN  SubSeq(time_360_ref, 1, Len(time_360_ref) - EraTrim)

\* the labels kept by .sel(time=slice(str(year), str(year)))
SelYear(time, year) == SelectSeq(time, LAMBDA t : t.year = year)

CmipSel == [y \in Years |-> SelYear(CmipTime, y)]
EraSel == [y \in Years |-> SelYear(EraTime, y)]

(***************************************************************************)
(* Pearson correlation.  np.corrcoef subtracts the means, forms the        *)
(* covariance matrix c and divides c[0,1] by sqrt(c[0,0]) and by           *)
(* sqrt(c[1,1]).  The common factor 1/(n-1) cancels, so the sums are kept  *)
(* scaled by n (integers), and the quotient is kept as its sign and its    *)
(* square num/den in lowest terms.  A division 0/0 gives NaN.              *)
(***************************************************************************)
\* s[1] + ... + s[k]
RECURSIVE SumTo(_, _)
SumTo(s, k) == IF k = 0 THEN 0 ELSE s[k] + SumTo(s, k - 1)

SumSeq(s) == SumTo(s, Len(s))

RECURSIVE Gcd(_, _)
Gcd(a, b) == IF b = 0 THEN a ELSE Gcd(b, a % b)

Sign(n) == IF n > 0 THEN 1 ELSE IF n < 0 THEN -1 ELSE 0

\* n * (s - mean(s))
Centered(s) == [k \in 1..Len(s) |-> Len(s) * s[k] - SumSeq(s)]

Dot(a, b) == SumSeq([k \in 1..Len(a) |-> a[k] * b[k]])

NaN == [nan |-> TRUE, sgn |-> 0, num |-> 0, den |-> 1]

\* sgn * sqrt(num / den)
Quotient(cov, varx, vary) ==
    IF varx * vary = 0 THEN NaN
    ELSE LET n == cov * cov
             d == varx * vary
             g == Gcd(d, n)
         IN  [nan |-> FALSE, sgn |-> Sign(cov), num |-> n \div g, den |-> d \div g]

\* get_corrcoef without the subtraction of the means
get_corrcoef_uncentered(x, y) == Quotient(Dot(x, y), Dot(x, x), Dot(y, y))

\* get_corrcoef returning the entry [0, 0] of the matrix instead of [0, 1]
get_corrcoef_diagonal(x, y) ==
    LET cx == Centered(x)
    IN  Quotient(Dot(cx, cx), Dot(cx, cx), Dot(cx, cx))

\* np.corrcoef(x, y)[0, 1]; defined when the two series stack (equal lengths)
get_corrcoef(x, y) ==
    LET cx == Centered(x)
        cy == Centered(y)
    IN  Quotient(Dot(cx, cy), Dot(cx, cx), Dot(cy, cy))

\* all values equal
ZeroVariance(s) == \A j, k \in 1..Len(s) : s[j] = s[k]

\* Returns with invalid operations raising: np.seterr(invalid='raise')
ReturnsUnlessInvalid(x, y) ==
    Len(x) = Len(y) /\ ~ZeroVariance(x) /\ ~ZeroVariance(y)

\* Whether the call returns.  np.corrcoef raises ValueError when the two
\* arrays cannot be stacked.  The division 0/0 of a series without variance
\* does not raise: np.seterr(divide='ignore', invalid='ignore').
Returns(x, y) == Len(x) = Len(y)

IsOne(r) == ~r.nan /\ r.sgn = 1 /\ r.num = r.den
IsMinusOne(r) == ~r.nan /\ r.sgn = -1 /\ r.num = r.den

(***************************************************************************)
(* The output directory.                                                   *)
(***************************************************************************)
\* an image written by plt.savefig: its title year, and whether this run wrote it
Png(year, fresh) == [kind |-> "png", title |-> year, fresh |-> fresh, frames |-> <<>>]
\* an animation: the images it was built from, in order
Gif(frames, fresh) == [kind |-> "gif", title |-> 0, fresh |-> fresh, frames |-> frames]
Txt == [kind |-> "txt", title |-> 0, fresh |-> FALSE, frames |-> <<>>]

\* open(name, 'w') and write: creates the file or replaces its content
Write(dir, name, content) ==
    [n \in (DOMAIN dir) \cup {name} |-> IF n = name THEN content ELSE dir[n]]

\* os.remove(name)
Remove(dir, name) == [n \in (DOMAIN dir) \ {name} |-> dir[n]]

\* What ./output may hold when the run starts: a frame of a year before the
\* range (left by a run over another range), a frame of a year of the range
\* (left by a run that stopped in the loop), an earlier animation, and a
\* file that has nothing to do with the run.
Leftovers ==
    LET names == {FrameName(FirstYear - 1), FrameName(FirstYear + 1),
                  GifName, NotesName}
    IN  [n \in names |->
            IF n = FrameName(FirstYear - 1) THEN Png(FirstYear - 1, FALSE)
            ELSE IF n = FrameName(FirstYear + 1) THEN Png(FirstYear + 1, FALSE)
            ELSE IF n = GifName THEN Gif(<<Png(FirstYear - 1, FALSE)>>, FALSE)
            ELSE Txt]

\* The precipitation record of a grid cell: dry throughout (no variance in
\* any year), rising through each year, or a three-month cycle whose phase
\* moves with the year.
Records == {"dry", "rising", "cycle"}

\* the value a record holds at a time label
Pr(record, t) ==
    CASE record = "dry" -> 0
      [] record = "rising" -> t.month
      [] record = "cycle" -> (t.month + t.year) % 3

\* ds['pr'].sel(time=slice(...)).load() at one cell: the values at the labels
Load(record, labels) == [k \in 1..Len(labels) |-> Pr(record, labels[k])]

(***************************************************************************)
(* The run: output directory, frame loop, GIF assembly, clean-up.          *)
(***************************************************************************)
InitPipe ==
    /\ pc = "setup"
    /\ i = 0
    /\ ds_cmip6 \in [Cells -> Records]
    /\ ds_tp_mon_remap \in [Cells -> Records]
    /\ \/ dirExists = FALSE /\ files = <<>>
       \/ /\ dirExists = TRUE
          /\ \E S \in SUBSET (DOMAIN Leftovers) : files = [n \in S |-> Leftovers[n]]
    /\ initial = files
    /\ selCmip = <<>>
    /\ selEra = <<>>
    /\ inCmip = [c \in Cells |-> <<>>]
    /\ inEra = [c \in Cells |-> <<>>]
    /\ cc = [c \in Cells |-> NaN]
    /\ del_files = <<>>

\* if not os.path.exists(outdir): os.mkdir(outdir)
MakeOutdir ==
    /\ pc = "setup"
    /\ dirExists' = TRUE
    /\ pc' = "loop"
    /\ UNCHANGED <<i, ds_cmip6, ds_tp_mon_remap, files, initial, selCmip, selEra, inCmip, inEra, cc, del_files>>

\* the two selections .sel(time=slice(str(year), str(year)))
Select(year) ==
    /\ selCmip' = CmipSel[year]
    /\ selEra' = EraSel[year]

\* the two .load() and xr.apply_ufunc(get_corrcoef, ..., vectorize=True)
Correlate(year) ==
    \E x \in {[c \in Cells |-> Load(ds_cmip6[c], CmipSel[year])]},
       y \in {[c \in Cells |-> Load(ds_tp_mon_remap[c], EraSel[year])]} :
        /\ \A c \in Cells : Returns(x[c], y[c])
        /\ inCmip' = x
        /\ inEra' = y
        /\ cc' = [c \in Cells |-> get_corrcoef(x[c], y[c])]

\* one pass of the loop body: i is the index of the pass to run next
FrameStep ==
    /\ pc = "loop"
    /\ LET year == FirstYear + i
       IN  /\ Select(year)
           /\ Correlate(year)
           /\ files' = Write(files, FrameName(year), Png(year, TRUE))
    /\ i' = i + 1
    /\ pc' = IF i + 1 = NumYears THEN "assemble" ELSE "loop"
    /\ UNCHANGED <<ds_cmip6, ds_tp_mon_remap, dirExists, initial, del_files>>

\* FrameFail with the exception caught and the loop going on (try/except: continue)
FrameFailSwallowed ==
    /\ pc = "loop"
    /\ i' = i + 1
    /\ pc' = IF i + 1 = NumYears THEN "assemble" ELSE "loop"
    /\ UNCHANGED <<ds_cmip6, ds_tp_mon_remap, dirExists, files, initial,
                   selCmip, selEra, inCmip, inEra, cc, del_files>>

\* an exception in the loop body: nothing catches it, the run ends.  It is
\* raised by the selection, or after it by the loading or the correlation,
\* or after those by the rendering or by savefig, which then has written no
\* file.
FrameFail ==
    /\ pc = "loop"
    /\ pc' = "aborted"
    /\ \/ UNCHANGED <<selCmip, selEra, inCmip, inEra, cc>>
       \/ Select(FirstYear + i) /\ UNCHANGED <<inCmip, inEra, cc>>
       \/ Select(FirstYear + i) /\ Correlate(FirstYear + i)
    /\ UNCHANGED <<i, ds_cmip6, ds_tp_mon_remap, dirExists, files, initial, del_files>>

\* img, *imgs = [Image.open(f) for f in sorted(glob.glob(...))]; img.save(...)
Assemble ==
    /\ pc = "assemble"
    /\ \E names \in {Sorted(Glob(files))} :
          /\ names # <<>>
          /\ files' = Write(files, GifName,
                            Gif([k \in 1..Len(names) |-> files[names[k]]], TRUE))
    /\ pc' = "glob"
    /\ UNCHANGED <<i, ds_cmip6, ds_tp_mon_remap, dirExists, initial, selCmip, selEra, inCmip, inEra, cc, del_files>>

\* GlobDelFiles with a pattern that matches nothing
GlobDelFilesNoMatch ==
    /\ pc = "glob"
    /\ del_files' = <<>>
    /\ pc' = "done"
    /\ UNCHANGED <<i, ds_cmip6, ds_tp_mon_remap, dirExists, files, initial,
                   selCmip, selEra, inCmip, inEra, cc>>

\* del_files = glob.glob(...): the order of a directory listing is not
\* specified; the list is taken in either direction
GlobDelFiles ==
    /\ pc = "glob"
    /\ \E listing \in {Sorted(Glob(files))} :
          /\ \E order \in {listing, Reverse(listing)} : del_files' = order
          /\ pc' = IF listing = <<>> THEN "done" ELSE "cleanup"
    /\ UNCHANGED <<i, ds_cmip6, ds_tp_mon_remap, dirExists, files, initial, selCmip, selEra, inCmip, inEra, cc>>

\* one pass of `for file in del_files: os.remove(file)`
RemoveFile ==
    /\ pc = "cleanup"
    /\ files' = Remove(files, Head(del_files))
    /\ del_files' = Tail(del_files)
    /\ pc' = IF Tail(del_files) = <<>> THEN "done" ELSE "cleanup"
    /\ UNCHANGED <<i, ds_cmip6, ds_tp_mon_remap, dirExists, initial, selCmip, selEra, inCmip, inEra, cc>>

IdlePipe ==
    /\ pc = "idle"
    /\ i = 0
    /\ ds_cmip6 = [c \in Cells |-> "dry"]
    /\ ds_tp_mon_remap = [c \in Cells |-> "dry"]
    /\ dirExists = FALSE
    /\ files = <<>>
    /\ initial = <<>>
    /\ selCmip = <<>>
    /\ selEra = <<>>
    /\ inCmip = [c \in Cells |-> <<>>]
    /\ inEra = [c \in Cells |-> <<>>]
    /\ cc = [c \in Cells |-> NaN]
    /\ del_files = <<>>

IdleCorr == inarray1 = <<>> /\ inarray2 = <<>> /\ corr = NaN /\ cpc = "idle"

IdleInterp ==
    /\ srcLat = <<>> /\ srcLon = <<>> /\ srcVal = <<>>
    /\ new_lat = <<>> /\ new_lon = <<>> /\ remap = <<>> /\ ipc = "idle"

(***************************************************************************)
(* get_corrcoef called on its own, on every pair of short series: a        *)
(* precipitation series (no negative value) against any series.            *)
(***************************************************************************)
SeriesOver(values) == UNION {[1..n -> values] : n \in 1..MaxLen}

InitCorr ==
    /\ inarray1 \in SeriesOver(0..MaxVal)
    /\ inarray2 \in SeriesOver((-MaxVal)..MaxVal)
    /\ corr = NaN
    /\ cpc = "call"

\* return np.corrcoef(inarray1, inarray2)[0, 1]
CallCorrcoef ==
    /\ cpc = "call"
    /\ Returns(inarray1, inarray2)
    /\ corr' = get_corrcoef(inarray1, inarray2)
    /\ cpc' = "returned"
    /\ UNCHANGED <<inarray1, inarray2>>

\* np.corrcoef cannot stack arrays of different lengths: ValueError
CorrcoefRaises ==
    /\ cpc = "call"
    /\ ~Returns(inarray1, inarray2)
    /\ cpc' = "raised"
    /\ UNCHANGED <<inarray1, inarray2, corr>>

NextCorr ==
    \/ CallCorrcoef /\ UNCHANGED <<pipeVars, interpVars>>
    \/ CorrcoefRaises /\ UNCHANGED <<pipeVars, interpVars>>

InitAlone == IdlePipe /\ InitCorr /\ IdleInterp

SpecCorr == InitAlone /\ [][NextCorr]_vars

(***************************************************************************)
(* ds_tp_mon.interp(lat=new_lat, lon=new_lon): linear interpolation, one   *)
(* dimension after the other, of each time step on its own.  Values are    *)
(* exact fractions num/den in lowest terms; a target coordinate outside    *)
(* the source axis gives NaN.                                              *)
(***************************************************************************)
NaNValue == [nan |-> TRUE, num |-> 0, den |-> 1]

Frac(n, d) ==
    LET s == IF d < 0 THEN -1 ELSE 1
        g == Gcd(IF n < 0 THEN -n ELSE n, IF d < 0 THEN -d ELSE d)
    IN  [nan |-> FALSE, num |-> (s * n) \div g, den |-> (s * d) \div g]

Exact(v) == Frac(v, 1)

\* Along anchored at the wrong end: y_hi + (y_hi - y_lo) * (x - x_lo) / (x_hi - x_lo)
AlongFromHi(y_lo, y_hi, x_lo, x_hi, x) ==
    IF y_lo.nan \/ y_hi.nan THEN NaNValue
    ELSE LET dx == x_hi - x_lo
             sn == y_hi.num * y_lo.den - y_lo.num * y_hi.den
             sd == y_hi.den * y_lo.den * dx
         IN  Frac(sn * (x - x_lo) * y_hi.den + y_hi.num * sd, sd * y_hi.den)

\* y_lo + (y_hi - y_lo) * (x - x_lo) / (x_hi - x_lo)
Along(y_lo, y_hi, x_lo, x_hi, x) ==
    IF y_lo.nan \/ y_hi.nan THEN NaNValue
    ELSE LET dx == x_hi - x_lo
             \* slope = (y_hi - y_lo) / dx, as a fraction over den_lo*den_hi*dx
             sn == y_hi.num * y_lo.den - y_lo.num * y_hi.den
             sd == y_hi.den * y_lo.den * dx
         IN  Frac(sn * (x - x_lo) * y_lo.den + y_lo.num * sd, sd * y_lo.den)

\* np.searchsorted(xs, x): the number of coordinates below x
SearchSorted(xs, x) == Cardinality({k \in 1..Len(xs) : xs[k] < x})

\* scipy's interp1d (linear, bounds_error=False) at x, on an ascending axis
interp1d(xs, ys, x) ==
    IF x < xs[1] \/ x > xs[Len(xs)] THEN NaNValue
    ELSE LET at == SearchSorted(xs, x)
             \* x_new_indices.clip(1, len(x) - 1), counted from 0
             hi0 == IF at < 1 THEN 1 ELSE IF at > Len(xs) - 1 THEN Len(xs) - 1 ELSE at
         IN  Along(ys[hi0], ys[hi0 + 1], xs[hi0], xs[hi0 + 1], x)

\* the positions of an axis in ascending order of coordinate (sortby)
Ascending(xs) ==
    [k \in 1..Len(xs) |->
        CHOOSE j \in 1..Len(xs) : Cardinality({m \in 1..Len(xs) : xs[m] < xs[j]}) = k - 1]

\* interp(lat=lats, lon=lons) of one time step: along lat, then along lon
interp(lat, lon, val, lats, lons) ==
    LET la == Ascending(lat)
        lo == Ascending(lon)
        slat == [k \in 1..Len(lat) |-> lat[la[k]]]
        slon == [k \in 1..Len(lon) |-> lon[lo[k]]]
        sval == [a \in 1..Len(lat) |-> [o \in 1..Len(lon) |-> Exact(val[la[a]][lo[o]])]]
        \* after the first pass: [new lat][source lon]
        pass1 == [a \in 1..Len(lats) |-> [o \in 1..Len(lon) |->
                    interp1d(slat, [k \in 1..Len(lat) |-> sval[k][o]], lats[a])]]
    IN  [a \in 1..Len(lats) |-> [o \in 1..Len(lons) |->
            interp1d(slon, pass1[a], lons[o])]]

\* the axes of a grid: two distinct coordinates; latitude runs either way
\* (ERA5 lists it from north to south), longitude eastwards
LatAxes == {<<a, b>> : a \in 0..MaxCoord, b \in 0..MaxCoord} \
               {<<a, a>> : a \in 0..MaxCoord}
LonAxes == {ax \in LatAxes : ax[1] < ax[2]}

\* by linearity of the interpolation in the values, 0 and 1 are enough
GridValues == {0, 1}

InitInterp ==
    /\ srcLat \in LatAxes
    /\ srcLon \in LonAxes
    /\ srcVal \in [1..2 -> [1..2 -> GridValues]]
    /\ new_lat \in LatAxes
    /\ new_lon \in LonAxes
    /\ remap = <<>>
    /\ ipc = "call"

\* ds_tp_mon_remap = ds_tp_mon.interp(lat=new_lat, lon=new_lon)
Remap ==
    /\ ipc = "call"
    /\ remap' = interp(srcLat, srcLon, srcVal, new_lat, new_lon)
    /\ ipc' = "returned"
    /\ UNCHANGED <<srcLat, srcLon, srcVal, new_lat, new_lon>>

NextInterp == Remap /\ UNCHANGED <<pipeVars, corrVars>>

InitRemap == IdlePipe /\ IdleCorr /\ InitInterp

SpecInterp == InitRemap /\ [][NextInterp]_vars

Init == InitPipe /\ IdleCorr /\ IdleInterp

Next ==
    \/ MakeOutdir /\ UNCHANGED <<corrVars, interpVars>>
    \/ FrameStep /\ UNCHANGED <<corrVars, interpVars>>
    \/ FrameFail /\ UNCHANGED <<corrVars, interpVars>>
    \/ Assemble /\ UNCHANGED <<corrVars, interpVars>>
    \/ GlobDelFiles /\ UNCHANGED <<corrVars, interpVars>>
    \/ RemoveFile /\ UNCHANGED <<corrVars, interpVars>>

Spec == Init /\ [][Next]_vars

(***************************************************************************)
(* Properties.                                                             *)
(***************************************************************************)
NameOfYear == [y \in Years |-> FrameName(y)]
FrameNames == {NameOfYear[y] : y \in Years}
FrameFiles(dir) == {n \in DOMAIN dir : Matches(n)}
\* the years whose frame, written by this run, is in the directory
FreshYears ==
    {y \in Years : NameOfYear[y] \in DOMAIN files /\ files[NameOfYear[y]] = Png(y, TRUE)}
\* the frames this run is to write
RunFrames == {Png(y, TRUE) : y \in Years}
Range(s) == {s[k] : k \in 1..Len(s)}
FreshGif == GifName \in DOMAIN files /\ files[GifName].fresh
Neg(s) == [k \in 1..Len(s) |-> -s[k]]
MonthsOf(y) == [k \in 1..MonthsPerYear |-> [year |-> y, month |-> k, day |-> MidMonthDay]]
SelectionsAreTheMonths ==
    \A y \in Years : CmipSel[y] = MonthsOf(y) /\ EraSel[y] = MonthsOf(y)

\* C1: when the loop has completed, just before the assembly, the output
\* directory holds exactly 36 frame images, one for each year 1979..2014,
\* each under its own year-keyed name.
C1_ExactlyOneFramePerYear ==
    pc = "assemble" =>
        /\ FrameFiles(files) = FrameNames
        /\ Cardinality(FrameFiles(files)) = NumYears
        /\ \A y \in Years : files[NameOfYear[y]] = Png(y, TRUE)

\* C2: the animation written by the assembly holds exactly 36 frames, the
\* frames of the years 1979..2014 in ascending order.
C2_GifIsTheYearsInOrder ==
    pc \in {"glob", "cleanup", "done"} =>
        /\ FreshGif
        /\ files[GifName].frames = [k \in 1..NumYears |-> Png(FirstYear + k - 1, TRUE)]

\* C3: after a run that reaches its end no file matching the frame pattern
\* is left, and a frame file (of this run, or one found at the start) is
\* missing from the directory only once the animation has been written
\* from all of them.
C3_FramesDeletedAfterAssembly ==
    LET known == FrameFiles(initial) \cup {NameOfYear[y] : y \in FirstYear..(FirstYear + i - 1)}
        deleted == known \ DOMAIN files
    IN  /\ pc = "done" => FrameFiles(files) = {}
        /\ deleted # {} =>
              /\ pc \in {"cleanup", "done"}
              /\ FreshGif
              /\ Len(files[GifName].frames) = Cardinality(known)
              /\ RunFrames \subseteq Range(files[GifName].frames)

C3_Witness ==
    /\ pc = "done"
    /\ FrameFiles(initial) # {}
    /\ FrameFiles(files) = {}

\* C4 as stated: the correlation of a series with itself is 1.0, for every
\* series.
C4_IdenticalIsOne ==
    (cpc = "returned" /\ inarray2 = inarray1) => IsOne(corr)

\* C4 as amended: the correlation of a series with itself is 1.0 when the
\* series has variance (not all of its values are equal), and NaN otherwise.
C4_IdenticalIsOneOrNaN ==
    (cpc = "returned" /\ inarray2 = inarray1) =>
        IF ZeroVariance(inarray1) THEN corr = NaN ELSE IsOne(corr)

C4_Witness ==
    /\ cpc = "returned"
    /\ inarray2 = inarray1
    /\ ~ZeroVariance(inarray1)
    /\ IsOne(corr)

\* C5 as stated: the correlation of a series with its negation is -1.0, for
\* every series.
C5_NegatedIsMinusOne ==
    (cpc = "returned" /\ inarray2 = Neg(inarray1)) => IsMinusOne(corr)

\* C5 as amended: the correlation of a series with its negation is -1.0
\* when the series has variance, and NaN otherwise.
C5_NegatedIsMinusOneOrNaN ==
    (cpc = "returned" /\ inarray2 = Neg(inarray1)) =>
        IF ZeroVariance(inarray1) THEN corr = NaN ELSE IsMinusOne(corr)

C5_Witness ==
    /\ cpc = "returned"
    /\ inarray2 = Neg(inarray1)
    /\ ~ZeroVariance(inarray1)
    /\ IsMinusOne(corr)

\* C6: a grid cell of which either series has no variance gets NaN as its
\* correlation, and this does not end the loop: while the loop runs, the
\* correlation of its next pass returns for every cell, and every pass so
\* far wrote its frame.
C6_ZeroVarianceGivesNaN ==
    /\ \A c \in Cells :
          (inCmip[c] # <<>> /\ (ZeroVariance(inCmip[c]) \/ ZeroVariance(inEra[c])))
              => cc[c] = NaN
    /\ pc = "loop" =>
          \A c \in Cells :
              Returns(Load(ds_cmip6[c], CmipSel[FirstYear + i]),
                      Load(ds_tp_mon_remap[c], EraSel[FirstYear + i]))
    /\ pc \in {"loop", "assemble"} => FreshYears = FirstYear..(FirstYear + i - 1)

C6_Witness ==
    /\ pc = "loop"
    /\ i >= 2
    /\ \E c \in Cells : ZeroVariance(inEra[c]) /\ ~ZeroVariance(inCmip[c]) /\ cc[c] = NaN
    /\ FrameName(FirstYear + i - 1) \in DOMAIN files

\* C7: when the target latitudes and longitudes are those of the source,
\* the interpolated field equals the source at every grid point.
C7_CoLocatedIsNoOp ==
    (ipc = "returned" /\ new_lat = srcLat /\ new_lon = srcLon) =>
        \A a \in 1..Len(srcLat) : \A o \in 1..Len(srcLon) :
            remap[a][o] = Exact(srcVal[a][o])

C7_Witness ==
    /\ ipc = "returned"
    /\ new_lat = srcLat
    /\ new_lon = srcLon
    /\ srcLat[1] > srcLat[2]
    /\ srcVal[1][1] # srcVal[2][1]
    /\ remap[1][1] = Exact(srcVal[1][1])

\* C8: a failure in the loop ends the run there.  Every pass counted by i
\* wrote its frame (none was skipped over), and once aborted nothing more
\* happens: no later year, no retry, no animation of this run, no clean-up.
C8_FailureAbortsRun ==
    /\ pc \in {"loop", "assemble", "aborted"} =>
          FreshYears = FirstYear..(FirstYear + i - 1)
    /\ FreshGif => /\ pc \in {"glob", "cleanup", "done"}
                   /\ RunFrames \subseteq Range(files[GifName].frames)
    /\ pc = "aborted" =>
          /\ i < NumYears
          /\ ~FreshGif
          /\ del_files = <<>>
          /\ FrameFiles(initial) \subseteq DOMAIN files
          /\ ~ENABLED Next

C8_Witness ==
    /\ pc = "aborted"
    /\ i \in 1..(NumYears - 1)
    /\ FrameName(FirstYear + i - 1) \in DOMAIN files
    /\ FrameName(FirstYear + i) \notin DOMAIN files
    /\ ~FreshGif

\* C9: for every year of the range the two selections have the same
\* length and the same labels: the twelve months of that year.
C9_SameLabels ==
    /\ SelectionsAreTheMonths
    /\ (selCmip # <<>> \/ selEra # <<>>) =>
          /\ selCmip = selEra
          /\ Len(selCmip) = MonthsPerYear
          /\ \E y \in {FirstYear + i - 1, FirstYear + i} \cap Years : selCmip = MonthsOf(y)
          /\ \A c \in Cells : inCmip[c] # <<>> => Len(inCmip[c]) = Len(inEra[c])

C9_Witness ==
    /\ pc = "assemble"
    /\ selEra = MonthsOf(CmipEndYear)
    /\ selCmip = selEra

\* C10: when the run is done, the directory exists and differs from what it
\* was at the start only by the animation being there and no file matching
\* the frame pattern being there; the animation is not removed by the
\* clean-up.
C10_OnlyTheGifRemains ==
    /\ pc \in {"glob", "cleanup", "done"} => FreshGif
    /\ pc = "done" =>
          /\ dirExists
          /\ FrameFiles(files) = {}
          /\ (DOMAIN files) \ {GifName} =
                 {n \in DOMAIN initial : ~Matches(n) /\ n # GifName}
          /\ \A n \in (DOMAIN files) \ {GifName} : files[n] = initial[n]

C10_Witness ==
    /\ pc = "done"
    /\ NotesName \in DOMAIN initial
    /\ GifName \in DOMAIN initial
    /\ FrameFiles(initial) # {}
    /\ files[NotesName] = initial[NotesName]
    /\ FreshGif

====
